---- MODULE Spec2Model ----
(***************************************************************************)
(* A model of package ptr (companyinfo/ptr): the generic pointer helpers   *)
(* To, From, FromOr, IsNil, Set, the slice conversions ToSlice/FromSlice   *)
(* and the map conversions ToMap/FromMap, the combinators (Map, Filter,    *)
(* FlatMap, Coalesce, ...) and the type-specific functions, over an        *)
(* explicit memory of addressable cells so that aliasing between pointers  *)
(* is observable.                                                          *)
(*                                                                         *)
(* A pointer *T is the address of a cell (an index into mem) or NilPtr.    *)
(* A slice []T is a header (isnil, base, len) over cells base+1..base+len  *)
(* of mem, so that &values[i] is an address.  A slice []*T and the two     *)
(* map types carry their elements directly: the library never takes the    *)
(* address of one of their elements.                                       *)
(***************************************************************************)
EXTENDS Integers, Sequences, FiniteSets, TLC

\* ---- bounds of the model ----
MaxVal == 1
MaxLen == 2
MaxCells == 4
MaxPtrs == 2
MaxMapCells == 3

\* ---- the data ----
Val == 0..MaxVal
Zero == 0
NilPtr == 0
Keys == {"a", "b"}
Tests == {"core", "slice", "map", "race"}

NilSlice == [isnil |-> TRUE, base |-> 0, len |-> 0]
NilPtrSlice == [isnil |-> TRUE, elems |-> <<>>]
EmptyKV == [k \in {} |-> Zero]
NilMap == [isnil |-> TRUE, kv |-> EmptyKV]

\* no goroutine has been started
NoThreads == [started |-> FALSE]

SeqsUpTo(S, n) == UNION {[1..k -> S] : k \in 0..n}
Perms(S) == {f \in [1..Cardinality(S) -> S] : \A i, j \in DOMAIN f : i # j => f[i] # f[j]}

\* what a test literal such as []*int{To(1), nil, To(3)} lists: a value to
\* take a pointer to, or nil
OptVal == {[empty |-> TRUE]} \cup {[empty |-> FALSE, val |-> v] : v \in Val}

VARIABLES test, mem, values, ptrs, ptrsOf, out, m, pm, pmOf, mout, p, r, last, threads

vars == <<test, mem, values, ptrs, ptrsOf, out, m, pm, pmOf, mout, p, r, last, threads>>

\* ---- the library: src/ptr.go ----

\* To confused with NonZero: no pointer for the zero value
ToNonZero(h, v) == IF v = Zero THEN [heap |-> h, ret |-> NilPtr] ELSE [heap |-> Append(h, v), ret |-> Len(h) + 1]

\* To keeping one cell per value: a pointer it returned before for an equal v
ToReuse(h, v) ==
  IF \E c \in 1..Len(h) : h[c] = v
    THEN [heap |-> h, ret |-> CHOOSE c \in 1..Len(h) : h[c] = v]
    ELSE [heap |-> Append(h, v), ret |-> Len(h) + 1]

\* func To[T any](v T) *T { return &v }
To(h, v) == [heap |-> Append(h, v), ret |-> Len(h) + 1]

\* what a call that panics yields in place of a value: no value of T
PanicVal == -1

\* *p as the runtime evaluates it: dereferencing nil panics
Deref(h, q) == IF q = NilPtr THEN PanicVal ELSE h[q]

\* From without its nil check
FromNoNilCheck(h, q) == Deref(h, q)

\* func From[T any](p *T) T
From(h, q) == IF q = NilPtr THEN Zero ELSE h[q]

\* FromOr that forgets its default and answers as From does
FromOrZero(h, q, defaultValue) == IF q = NilPtr THEN Zero ELSE h[q]

\* func FromOr[T any](p *T, defaultValue T) T
FromOr(h, q, defaultValue) == IF q = NilPtr THEN defaultValue ELSE h[q]

\* func GetOr: the alias of FromOr the tests call
GetOr(h, q, defaultValue) == FromOr(h, q, defaultValue)

\* func IsNil[T any](p *T) bool
IsNil(q) == q = NilPtr

\* Set assigning to its parameter instead of through it: p = &value
SetLocal(h, q, value) ==
  IF q = NilPtr
    THEN [heap |-> h, ret |-> FALSE]
    ELSE [heap |-> h, ret |-> TRUE]

\* func Set[T any](p *T, value T) bool
Set(h, q, value) ==
  IF q = NilPtr
    THEN [heap |-> h, ret |-> FALSE]
    ELSE [heap |-> [h EXCEPT ![q] = value], ret |-> TRUE]

\* ToSlice taking the address of one variable for every element
ToSliceSameCell(h, vs) ==
  IF vs.isnil
    THEN NilPtrSlice
    ELSE [isnil |-> FALSE, elems |-> [i \in 1..vs.len |-> vs.base + 1]]

\* ToSlice whose loop stops one element early
ToSliceShort(h, vs) ==
  IF vs.isnil
    THEN NilPtrSlice
    ELSE [isnil |-> FALSE, elems |-> [i \in 1..(vs.len - 1) |-> vs.base + i]]

\* ToSlice without its nil check
ToSliceNoNilCheck(h, vs) ==
  [isnil |-> FALSE, elems |-> [i \in 1..vs.len |-> vs.base + i]]

\* ToSlice that leaves the pointer of a zero element nil
ToSliceNonZero(h, vs) ==
  IF vs.isnil
    THEN NilPtrSlice
    ELSE [isnil |-> FALSE,
          elems |-> [i \in 1..vs.len |-> IF h[vs.base + i] = Zero THEN NilPtr ELSE vs.base + i]]

\* func ToSlice[T any](values []T) []*T: result[i] = &values[i]
ToSlice(h, vs) ==
  IF vs.isnil
    THEN NilPtrSlice
    ELSE [isnil |-> FALSE, elems |-> [i \in 1..vs.len |-> vs.base + i]]

\* FromSlice appending only what the non-nil pointers hold
FromSliceSkipNil(h, ps) ==
  IF ps.isnil
    THEN [heap |-> h, ret |-> NilSlice]
    ELSE LET live == SelectSeq(ps.elems, LAMBDA q : q # NilPtr)
         IN [heap |-> h \o [i \in 1..Len(live) |-> h[live[i]]],
             ret |-> [isnil |-> FALSE, base |-> Len(h), len |-> Len(live)]]

\* FromSlice sparing the copy: when the pointers are the addresses of one
\* array's elements in order, it returns that array
FromSliceView(h, ps) ==
  IF ps.isnil
    THEN [heap |-> h, ret |-> NilSlice]
    ELSE IF /\ ps.elems # <<>>
            /\ ps.elems[1] # NilPtr
            /\ \A i \in DOMAIN ps.elems : ps.elems[i] = ps.elems[1] + i - 1
      THEN [heap |-> h,
            ret |-> [isnil |-> FALSE, base |-> ps.elems[1] - 1, len |-> Len(ps.elems)]]
      ELSE [heap |-> h \o [i \in 1..Len(ps.elems) |-> From(h, ps.elems[i])],
            ret |-> [isnil |-> FALSE, base |-> Len(h), len |-> Len(ps.elems)]]

\* func FromSlice[T any](ptrs []*T) []T: result[i] = From(p), in a new array
FromSlice(h, ps) ==
  IF ps.isnil
    THEN [heap |-> h, ret |-> NilSlice]
    ELSE [heap |-> h \o [i \in 1..Len(ps.elems) |-> From(h, ps.elems[i])],
          ret |-> [isnil |-> FALSE, base |-> Len(h), len |-> Len(ps.elems)]]

\* the loop of ToMap without "v := v": every key gets the address of the one
\* loop variable, which holds the value of the iteration that ran last
RECURSIVE ToMapLoopShared(_, _, _, _)
ToMapLoopShared(h, kv, order, result) ==
  IF order = <<>>
    THEN [heap |-> h, ret |-> [isnil |-> FALSE, kv |-> result]]
    ELSE LET k == Head(order)
             fresh == DOMAIN result = {}
             addr == IF fresh THEN Len(h) + 1 ELSE result[CHOOSE x \in DOMAIN result : TRUE]
             h2 == IF fresh THEN Append(h, kv[k]) ELSE [h EXCEPT ![addr] = kv[k]]
         IN ToMapLoopShared(h2, kv, Tail(order),
                            [x \in DOMAIN result \cup {k} |->
                               IF x = k THEN addr ELSE result[x]])

\* the loop of ToMap saving a cell: a key whose value an earlier key had gets
\* the pointer of that key
RECURSIVE ToMapLoopIntern(_, _, _, _)
ToMapLoopIntern(h, kv, order, result) ==
  IF order = <<>>
    THEN [heap |-> h, ret |-> [isnil |-> FALSE, kv |-> result]]
    ELSE LET k == Head(order)
             same == {x \in DOMAIN result : h[result[x]] = kv[k]}
             cell == IF same = {}
                       THEN To(h, kv[k])
                       ELSE [heap |-> h, ret |-> result[CHOOSE x \in same : TRUE]]
         IN ToMapLoopIntern(cell.heap, kv, Tail(order),
                            [x \in DOMAIN result \cup {k} |->
                               IF x = k THEN cell.ret ELSE result[x]])

\* the loop of ToMap: for k, v := range values { v := v; result[k] = &v },
\* visiting the keys in the order the runtime picks
RECURSIVE ToMapLoop(_, _, _, _)
ToMapLoop(h, kv, order, result) ==
  IF order = <<>>
    THEN [heap |-> h, ret |-> [isnil |-> FALSE, kv |-> result]]
    ELSE LET k == Head(order)
             cell == To(h, kv[k])
         IN ToMapLoop(cell.heap, kv, Tail(order),
                      [x \in DOMAIN result \cup {k} |->
                         IF x = k THEN cell.ret ELSE result[x]])

\* func ToMap[T any](values map[string]T) map[string]*T
ToMap(h, vs, order) ==
  IF vs.isnil
    THEN [heap |-> h, ret |-> NilMap]
    ELSE ToMapLoop(h, vs.kv, order, EmptyKV)

\* FromMap that stores no entry for a nil pointer
FromMapSkipNil(h, ps) ==
  IF ps.isnil
    THEN NilMap
    ELSE LET live == {k \in DOMAIN ps.kv : ps.kv[k] # NilPtr}
         IN [isnil |-> FALSE, kv |-> [k \in live |-> h[ps.kv[k]]]]

\* func FromMap[T any](ptrs map[string]*T) map[string]T
FromMap(h, ps) ==
  IF ps.isnil
    THEN NilMap
    ELSE [isnil |-> FALSE, kv |-> [k \in DOMAIN ps.kv |-> From(h, ps.kv[k])]]

\* ---- the library, continued: src/ptr.go ----

\* MustFrom answering as From does for nil
MustFromZero(h, q) == IF q = NilPtr THEN Zero ELSE h[q]

\* func MustFrom[T any](p *T) T: panics for nil
MustFrom(h, q) == IF q = NilPtr THEN PanicVal ELSE h[q]

\* func MustInt: MustFrom at type int
MustInt(h, q) == MustFrom(h, q)

\* Equal comparing the pointers instead of the values
EqualIdentity(h, a, b) == a = b

\* func Equal[T comparable](a, b *T) bool
Equal(h, a, b) ==
  IF a = NilPtr /\ b = NilPtr
    THEN TRUE
    ELSE IF a = NilPtr \/ b = NilPtr
      THEN FALSE
      ELSE h[a] = h[b]

\* Copy returning the pointer it was given
CopyAlias(h, q) == [heap |-> h, ret |-> q]

\* Copy that moves: the cell it was given is left with the zero value
CopyMove(h, q) ==
  IF q = NilPtr
    THEN [heap |-> h, ret |-> NilPtr]
    ELSE [heap |-> Append([h EXCEPT ![q] = Zero], h[q]), ret |-> Len(h) + 1]

\* func Copy[T any](p *T) *T: v := *p; return &v
Copy(h, q) ==
  IF q = NilPtr
    THEN [heap |-> h, ret |-> NilPtr]
    ELSE [heap |-> Append(h, h[q]), ret |-> Len(h) + 1]

\* Coalesce that keeps looking after its first hit and returns the last one
RECURSIVE CoalesceLast(_)
CoalesceLast(ps) ==
  IF ps = <<>>
    THEN NilPtr
    ELSE IF ps[Len(ps)] # NilPtr
      THEN ps[Len(ps)]
      ELSE CoalesceLast(SubSeq(ps, 1, Len(ps) - 1))

\* func Coalesce[T any](ptrs ...*T) *T
RECURSIVE Coalesce(_)
Coalesce(ps) ==
  IF ps = <<>>
    THEN NilPtr
    ELSE IF Head(ps) # NilPtr
      THEN Head(ps)
      ELSE Coalesce(Tail(ps))

\* func Or: the first of two pointers that is not nil
Or(a, b) == IF a # NilPtr THEN a ELSE b

\* Map calling fn on From(p) before its nil check
MapEager(h, q, fn) ==
  LET result == fn[From(h, q)] IN
    IF q = NilPtr
      THEN [heap |-> h, ret |-> NilPtr, calls |-> <<From(h, q)>>]
      ELSE [heap |-> Append(h, result), ret |-> Len(h) + 1, calls |-> <<h[q]>>]

\* Map storing fn(*p) in the cell it was given and returning p
MapInPlace(h, q, fn) ==
  IF q = NilPtr
    THEN [heap |-> h, ret |-> NilPtr, calls |-> <<>>]
    ELSE [heap |-> [h EXCEPT ![q] = fn[h[q]]], ret |-> q, calls |-> <<h[q]>>]

\* func Map[T, R any](p *T, fn func(T) R) *R: result := fn(*p); return &result.
\* calls lists the arguments fn was invoked with.
Map(h, q, fn) ==
  IF q = NilPtr
    THEN [heap |-> h, ret |-> NilPtr, calls |-> <<>>]
    ELSE LET result == fn[h[q]]
         IN [heap |-> Append(h, result), ret |-> Len(h) + 1, calls |-> <<h[q]>>]

\* Filter returning a pointer to a copy of what passes the predicate
FilterCopy(h, q, pred) ==
  IF q = NilPtr
    THEN [heap |-> h, ret |-> NilPtr, calls |-> <<>>]
    ELSE IF pred[h[q]]
      THEN [heap |-> Append(h, h[q]), ret |-> Len(h) + 1, calls |-> <<h[q]>>]
      ELSE [heap |-> h, ret |-> NilPtr, calls |-> <<h[q]>>]

\* func Filter: p itself when the predicate holds for *p, nil otherwise
Filter(h, q, pred) ==
  IF q = NilPtr
    THEN [heap |-> h, ret |-> NilPtr, calls |-> <<>>]
    ELSE [heap |-> h, ret |-> IF pred[h[q]] THEN q ELSE NilPtr, calls |-> <<h[q]>>]

\* FlatMap wrapping as Map does: a pointer to the zero value where fn answers nil
FlatMapWrap(h, q, fn) ==
  IF q = NilPtr
    THEN [heap |-> h, ret |-> NilPtr, calls |-> <<>>]
    ELSE LET y == fn[h[q]]
             cell == IF y.empty THEN To(h, Zero) ELSE To(h, y.val)
         IN [heap |-> cell.heap, ret |-> cell.ret, calls |-> <<h[q]>>]

\* func FlatMap: fn(*p) as fn returns it; fn answers nil or To(y)
FlatMap(h, q, fn) ==
  IF q = NilPtr
    THEN [heap |-> h, ret |-> NilPtr, calls |-> <<>>]
    ELSE LET y == fn[h[q]]
             cell == IF y.empty THEN [heap |-> h, ret |-> NilPtr] ELSE To(h, y.val)
         IN [heap |-> cell.heap, ret |-> cell.ret, calls |-> <<h[q]>>]

\* func Bind: FlatMap under its other name
Bind(h, q, fn) == FlatMap(h, q, fn)

\* Modify computing fn(*p) without storing it
ModifyDiscard(h, q, fn) ==
  IF q = NilPtr
    THEN [heap |-> h, ret |-> FALSE, calls |-> <<>>]
    ELSE [heap |-> h, ret |-> TRUE, calls |-> <<h[q]>>]

\* func Modify: *p = fn(*p)
Modify(h, q, fn) ==
  IF q = NilPtr
    THEN [heap |-> h, ret |-> FALSE, calls |-> <<>>]
    ELSE [heap |-> [h EXCEPT ![q] = fn[h[q]]], ret |-> TRUE, calls |-> <<h[q]>>]

\* func Apply: fn(*p), for the effect of fn only
Apply(h, q) ==
  IF q = NilPtr
    THEN [heap |-> h, ret |-> FALSE, calls |-> <<>>]
    ELSE [heap |-> h, ret |-> TRUE, calls |-> <<h[q]>>]

\* Swap that copies whichever side is there over the other
SwapOneSided(h, a, b) ==
  IF a # NilPtr /\ b # NilPtr
    THEN [h EXCEPT ![a] = h[b], ![b] = h[a]]
    ELSE IF a # NilPtr
      THEN [h EXCEPT ![a] = Zero]
      ELSE IF b # NilPtr THEN [h EXCEPT ![b] = Zero] ELSE h

\* func Swap: *a, *b = *b, *a when neither is nil
Swap(h, a, b) ==
  IF a = NilPtr \/ b = NilPtr
    THEN h
    ELSE [h EXCEPT ![a] = h[b], ![b] = h[a]]

\* NonZero confused with To: a pointer for every value
NonZeroAlways(h, v) == [heap |-> Append(h, v), ret |-> Len(h) + 1]

\* func NonZero: nil for the zero value of T, &v otherwise
NonZero(h, v) ==
  IF v = Zero
    THEN [heap |-> h, ret |-> NilPtr]
    ELSE [heap |-> Append(h, v), ret |-> Len(h) + 1]

\* IsZero confused with IsNil: no look at the value
IsZeroNilOnly(h, q) == q = NilPtr

\* func IsZero: p == nil || *p == zero
IsZero(h, q) == q = NilPtr \/ h[q] = Zero

\* ---- the type-specific functions, at the type int64 for all the types ----

\* func Int64(v int64) *int64 { return To(v) }
Int64(h, v) == To(h, v)

\* ToInt64 calling MustFrom where it should call From
ToInt64Must(h, q) == MustFrom(h, q)

\* func ToInt64(p *int64) int64 { return From(p) }
ToInt64(h, q) == From(h, q)

\* func Int64Slice(vs []int64) []*int64 { return ToSlice(vs) }
Int64Slice(h, vs) == ToSlice(h, vs)

\* func ToInt64Slice(vs []*int64) []int64 { return FromSlice(vs) }
ToInt64Slice(h, ps) == FromSlice(h, ps)

\* func Int64Map(vs map[string]int64) map[string]*int64 { return ToMap(vs) }
Int64Map(h, vs, order) == ToMap(h, vs, order)

\* func ToInt64Map(vs map[string]*int64) map[string]int64 { return FromMap(vs) }
ToInt64Map(h, ps) == FromMap(h, ps)

\* ---- reading the state ----

\* the elements of a []T
Contents(h, vs) == [i \in 1..vs.len |-> h[vs.base + i]]

\* what a pointer holds, as a value that does not depend on the memory
Held(h, q) == IF q = NilPtr THEN [empty |-> TRUE] ELSE [empty |-> FALSE, val |-> h[q]]

SnapSlice(h, vs) == [isnil |-> vs.isnil, elems |-> Contents(h, vs)]
SnapPtrs(h, ps) == [isnil |-> ps.isnil, elems |-> [i \in 1..Len(ps.elems) |-> Held(h, ps.elems[i])]]
SnapPtrMap(h, ps) == [isnil |-> ps.isnil, kv |-> [k \in DOMAIN ps.kv |-> Held(h, ps.kv[k])]]

\* ---- the state after construction ----

Init ==
  /\ test \in Tests
  /\ \E isnil \in BOOLEAN, xs \in SeqsUpTo(Val, MaxLen) :
       /\ isnil => xs = <<>>
       /\ test # "slice" => isnil
       /\ mem = xs
       /\ values = IF isnil THEN NilSlice ELSE [isnil |-> FALSE, base |-> 0, len |-> Len(xs)]
  /\ \E isnil \in BOOLEAN, K \in SUBSET Keys :
       \E f \in [K -> Val] :
         /\ isnil => K = {}
         /\ test # "map" => isnil
         /\ m = IF isnil THEN NilMap ELSE [isnil |-> FALSE, kv |-> f]
  /\ ptrs = NilPtrSlice
  /\ ptrsOf = "none"
  /\ out = NilSlice
  /\ pm = NilMap
  /\ pmOf = "none"
  /\ mout = NilMap
  /\ p = NilPtr
  /\ r = Zero
  /\ last = [op |-> "init"]
  /\ threads = NoThreads

\* ---- the scalar operations ----

CallTo ==
  /\ test = "core"
  /\ Len(mem) < MaxPtrs
  /\ \E v \in Val :
       LET res == To(mem, v) IN
         /\ mem' = res.heap
         /\ p' = res.ret
         /\ last' = [op |-> "To", arg |-> v]
  /\ UNCHANGED <<test, values, ptrs, ptrsOf, out, m, pm, pmOf, mout, r, threads>>

CallFrom ==
  /\ test = "core"
  /\ \E q \in {NilPtr, p} :
       /\ r' = From(mem, q)
       /\ last' = [op |-> "From", ptr |-> q, held |-> Held(mem, q)]
  /\ UNCHANGED <<test, mem, values, ptrs, ptrsOf, out, m, pm, pmOf, mout, p, threads>>

CallFromOr ==
  /\ test = "core"
  /\ \E q \in {NilPtr, p}, d \in Val :
       /\ r' = FromOr(mem, q, d)
       /\ last' = [op |-> "FromOr", ptr |-> q, held |-> Held(mem, q), def |-> d]
  /\ UNCHANGED <<test, mem, values, ptrs, ptrsOf, out, m, pm, pmOf, mout, p, threads>>

CallGetOr ==
  /\ test = "core"
  /\ \E q \in {NilPtr, p}, d \in Val :
       /\ r' = GetOr(mem, q, d)
       /\ last' = [op |-> "GetOr", ptr |-> q, held |-> Held(mem, q), def |-> d]
  /\ UNCHANGED <<test, mem, values, ptrs, ptrsOf, out, m, pm, pmOf, mout, p, threads>>

CallSet ==
  /\ test = "core"
  /\ \E q \in {NilPtr, p}, v \in Val :
       LET res == Set(mem, q, v) IN
         /\ mem' = res.heap
         /\ last' = [op |-> "Set", ptr |-> q, arg |-> v, ret |-> res.ret]
  /\ UNCHANGED <<test, values, ptrs, ptrsOf, out, m, pm, pmOf, mout, p, r, threads>>

\* v2 := From(To(v))
CallFromTo ==
  /\ test = "core"
  /\ Len(mem) < MaxPtrs
  /\ \E v \in Val :
       LET res == To(mem, v) IN
         /\ mem' = res.heap
         /\ p' = res.ret
         /\ r' = From(res.heap, res.ret)
         /\ last' = [op |-> "FromTo", arg |-> v]
  /\ UNCHANGED <<test, values, ptrs, ptrsOf, out, m, pm, pmOf, mout, threads>>

\* ---- the scalar operations, continued ----

\* the collections, which the scalar operations leave alone
collVars == <<values, ptrs, ptrsOf, out, m, pm, pmOf, mout>>

\* the pointers a caller can hold: nil and the address of every cell
Ptrs(h) == 0..Len(h)

\* the function arguments func(T) T: the constant functions, the identity and
\* the successor
Fns ==
  {[x \in Val |-> c] : c \in Val}
    \cup {[x \in Val |-> x], [x \in Val |-> (x + 1) % (MaxVal + 1)]}

\* the function arguments func(T) bool: always, never, non-zero, zero
Preds ==
  {[x \in Val |-> TRUE], [x \in Val |-> FALSE], [x \in Val |-> x # Zero], [x \in Val |-> x = Zero]}

\* the function arguments func(T) *T: return nil, return To(c), return To(x)
\* for a non-zero x only
OptFns ==
  {[x \in Val |-> e] : e \in OptVal}
    \cup {[x \in Val |-> IF x = Zero THEN [empty |-> TRUE] ELSE [empty |-> FALSE, val |-> x]]}

\* what a function argument returned for the value a pointer held
Outcome(fn, held) == IF held.empty THEN [called |-> FALSE] ELSE [called |-> TRUE, val |-> fn[held.val]]

\* v := MustFrom(a), under recover()
CallMustFrom ==
  /\ test = "core"
  /\ \E a \in Ptrs(mem) :
       LET res == MustFrom(mem, a) IN
         /\ r' = IF res = PanicVal THEN r ELSE res
         /\ last' = [op |-> "MustFrom", ptr |-> a, held |-> Held(mem, a),
                     panicked |-> res = PanicVal]
  /\ UNCHANGED <<test, mem, p, collVars, threads>>

\* v := MustInt(a), under recover()
CallMustInt ==
  /\ test = "core"
  /\ \E a \in Ptrs(mem) :
       LET res == MustInt(mem, a) IN
         /\ r' = IF res = PanicVal THEN r ELSE res
         /\ last' = [op |-> "MustInt", ptr |-> a, held |-> Held(mem, a),
                     panicked |-> res = PanicVal]
  /\ UNCHANGED <<test, mem, p, collVars, threads>>

\* IsNil(a)
CallIsNil ==
  /\ test = "core"
  /\ \E a \in Ptrs(mem) :
       last' = [op |-> "IsNil", ptr |-> a, ret |-> IsNil(a)]
  /\ UNCHANGED <<test, mem, p, r, collVars, threads>>

\* Equal(a, b)
CallEqual ==
  /\ test = "core"
  /\ \E a, b \in Ptrs(mem) :
       last' = [op |-> "Equal", a |-> a, b |-> b, ha |-> Held(mem, a), hb |-> Held(mem, b),
                ret |-> Equal(mem, a, b)]
  /\ UNCHANGED <<test, mem, p, r, collVars, threads>>

\* p = Copy(a)
CallCopy ==
  /\ test = "core"
  /\ Len(mem) < MaxPtrs
  /\ \E a \in Ptrs(mem) :
       LET res == Copy(mem, a) IN
         /\ mem' = res.heap
         /\ p' = res.ret
         /\ last' = [op |-> "Copy", ptr |-> a, held |-> Held(mem, a)]
  /\ UNCHANGED <<test, r, collVars, threads>>

\* Set(a, v) through any pointer the caller holds
CallSetAt ==
  /\ test = "core"
  /\ \E a \in Ptrs(mem), v \in Val :
       LET res == Set(mem, a, v) IN
         /\ mem' = res.heap
         /\ last' = [op |-> "SetAt", ptr |-> a, arg |-> v, ret |-> res.ret]
  /\ UNCHANGED <<test, p, r, collVars, threads>>

\* p = Coalesce(ps...)
CallCoalesce ==
  /\ test = "core"
  /\ \E ps \in SeqsUpTo(Ptrs(mem), MaxLen) :
       /\ p' = Coalesce(ps)
       /\ last' = [op |-> "Coalesce", args |-> ps]
  /\ UNCHANGED <<test, mem, r, collVars, threads>>

\* p = Or(a, b)
CallOr ==
  /\ test = "core"
  /\ \E a, b \in Ptrs(mem) :
       /\ p' = Or(a, b)
       /\ last' = [op |-> "Or", args |-> <<a, b>>]
  /\ UNCHANGED <<test, mem, r, collVars, threads>>

\* p = Map(a, fn)
CallMap ==
  /\ test = "core"
  /\ Len(mem) < MaxPtrs
  /\ \E a \in Ptrs(mem), fn \in Fns :
       LET res == Map(mem, a, fn) IN
         /\ mem' = res.heap
         /\ p' = res.ret
         /\ last' = [op |-> "Map", ptr |-> a, held |-> Held(mem, a),
                     fx |-> Outcome(fn, Held(mem, a)), calls |-> res.calls]
  /\ UNCHANGED <<test, r, collVars, threads>>

\* p = Filter(a, pred)
CallFilter ==
  /\ test = "core"
  /\ \E a \in Ptrs(mem), pred \in Preds :
       LET res == Filter(mem, a, pred) IN
         /\ mem' = res.heap
         /\ p' = res.ret
         /\ last' = [op |-> "Filter", ptr |-> a, held |-> Held(mem, a),
                     fx |-> Outcome(pred, Held(mem, a)), calls |-> res.calls]
  /\ UNCHANGED <<test, r, collVars, threads>>

\* p = FlatMap(a, fn)
CallFlatMap ==
  /\ test = "core"
  /\ Len(mem) < MaxPtrs
  /\ \E a \in Ptrs(mem), fn \in OptFns :
       LET res == FlatMap(mem, a, fn) IN
         /\ mem' = res.heap
         /\ p' = res.ret
         /\ last' = [op |-> "FlatMap", ptr |-> a, held |-> Held(mem, a),
                     fx |-> Outcome(fn, Held(mem, a)), calls |-> res.calls]
  /\ UNCHANGED <<test, r, collVars, threads>>

\* p = Bind(a, fn)
CallBind ==
  /\ test = "core"
  /\ Len(mem) < MaxPtrs
  /\ \E a \in Ptrs(mem), fn \in OptFns :
       LET res == Bind(mem, a, fn) IN
         /\ mem' = res.heap
         /\ p' = res.ret
         /\ last' = [op |-> "Bind", ptr |-> a, held |-> Held(mem, a),
                     fx |-> Outcome(fn, Held(mem, a)), calls |-> res.calls]
  /\ UNCHANGED <<test, r, collVars, threads>>

\* Modify(a, fn)
CallModify ==
  /\ test = "core"
  /\ \E a \in Ptrs(mem), fn \in Fns :
       LET res == Modify(mem, a, fn) IN
         /\ mem' = res.heap
         /\ last' = [op |-> "Modify", ptr |-> a, held |-> Held(mem, a),
                     fx |-> Outcome(fn, Held(mem, a)), calls |-> res.calls, ret |-> res.ret]
  /\ UNCHANGED <<test, p, r, collVars, threads>>

\* Apply(a, fn)
CallApply ==
  /\ test = "core"
  /\ \E a \in Ptrs(mem) :
       LET res == Apply(mem, a) IN
         /\ mem' = res.heap
         /\ last' = [op |-> "Apply", ptr |-> a, held |-> Held(mem, a),
                     calls |-> res.calls, ret |-> res.ret]
  /\ UNCHANGED <<test, p, r, collVars, threads>>

\* Swap(a, b)
CallSwap ==
  /\ test = "core"
  /\ \E a, b \in Ptrs(mem) :
       /\ mem' = Swap(mem, a, b)
       /\ last' = [op |-> "Swap", a |-> a, b |-> b, ha |-> Held(mem, a), hb |-> Held(mem, b)]
  /\ UNCHANGED <<test, p, r, collVars, threads>>

\* p = NonZero(v)
CallNonZero ==
  /\ test = "core"
  /\ Len(mem) < MaxPtrs
  /\ \E v \in Val :
       LET res == NonZero(mem, v) IN
         /\ mem' = res.heap
         /\ p' = res.ret
         /\ last' = [op |-> "NonZero", arg |-> v]
  /\ UNCHANGED <<test, r, collVars, threads>>

\* IsZero(a)
CallIsZero ==
  /\ test = "core"
  /\ \E a \in Ptrs(mem) :
       last' = [op |-> "IsZero", ptr |-> a, held |-> Held(mem, a), ret |-> IsZero(mem, a)]
  /\ UNCHANGED <<test, mem, p, r, collVars, threads>>

\* ---- the slice operations ----

\* a literal []*T{To(1), nil, To(3)}: one fresh cell per element that is not nil
RECURSIVE PtrLiteral(_, _, _)
PtrLiteral(h, es, acc) ==
  IF es = <<>>
    THEN [heap |-> h, ret |-> acc]
    ELSE IF Head(es).empty
      THEN PtrLiteral(h, Tail(es), Append(acc, NilPtr))
      ELSE LET cell == To(h, Head(es).val)
           IN PtrLiteral(cell.heap, Tail(es), Append(acc, cell.ret))

NonEmptyCount(es) == Cardinality({i \in DOMAIN es : ~es[i].empty})

\* ptrs := []*T{...}, or var ptrs []*T
MakePtrs ==
  /\ test = "slice"
  /\ last.op = "init"
  /\ \E isnil \in BOOLEAN, es \in SeqsUpTo(OptVal, MaxLen) :
       /\ isnil => es = <<>>
       /\ Len(mem) + NonEmptyCount(es) <= MaxCells
       /\ LET res == PtrLiteral(mem, es, <<>>) IN
            /\ mem' = res.heap
            /\ ptrs' = IF isnil THEN NilPtrSlice ELSE [isnil |-> FALSE, elems |-> res.ret]
       /\ last' = [op |-> "MakePtrs"]
  /\ ptrsOf' = "literal"
  /\ UNCHANGED <<test, values, out, m, pm, pmOf, mout, p, r, threads>>

\* ptrs := ToSlice(values)
CallToSlice ==
  /\ test = "slice"
  /\ ptrs' = ToSlice(mem, values)
  /\ ptrsOf' = "values"
  /\ last' = [op |-> "ToSlice", arg |-> SnapSlice(mem, values)]
  /\ UNCHANGED <<test, mem, values, out, m, pm, pmOf, mout, p, r, threads>>

\* out := FromSlice(ptrs)
CallFromSlice ==
  /\ test = "slice"
  /\ Len(mem) + Len(ptrs.elems) <= MaxCells
  /\ LET res == FromSlice(mem, ptrs) IN
       /\ mem' = res.heap
       /\ out' = res.ret
  /\ last' = [op |-> "FromSlice", arg |-> SnapPtrs(mem, ptrs)]
  /\ UNCHANGED <<test, values, ptrs, ptrsOf, m, pm, pmOf, mout, p, r, threads>>

\* Set(ptrs[i], v)
SetElem ==
  /\ test = "slice"
  /\ \E i \in DOMAIN ptrs.elems, v \in Val :
       LET res == Set(mem, ptrs.elems[i], v) IN
         /\ mem' = res.heap
         /\ last' = [op |-> "SetElem", idx |-> i, arg |-> v, ret |-> res.ret]
  /\ UNCHANGED <<test, values, ptrs, ptrsOf, out, m, pm, pmOf, mout, p, r, threads>>

\* values[i] = v
WriteValues ==
  /\ test = "slice"
  /\ \E i \in 1..values.len, v \in Val :
       /\ mem' = [mem EXCEPT ![values.base + i] = v]
       /\ last' = [op |-> "WriteValues", idx |-> i, arg |-> v]
  /\ UNCHANGED <<test, values, ptrs, ptrsOf, out, m, pm, pmOf, mout, p, r, threads>>

\* out[i] = v
WriteOut ==
  /\ test = "slice"
  /\ \E i \in 1..out.len, v \in Val :
       /\ mem' = [mem EXCEPT ![out.base + i] = v]
       /\ last' = [op |-> "WriteOut"]
  /\ UNCHANGED <<test, values, ptrs, ptrsOf, out, m, pm, pmOf, mout, p, r, threads>>

\* out := FromSlice(ToSlice(values))
RoundTripSlice ==
  /\ test = "slice"
  /\ Len(mem) + values.len <= MaxCells
  /\ LET ps == ToSlice(mem, values)
         res == FromSlice(mem, ps)
     IN /\ ptrs' = ps
        /\ mem' = res.heap
        /\ out' = res.ret
  /\ ptrsOf' = "values"
  /\ last' = [op |-> "RoundTripSlice", arg |-> SnapSlice(mem, values)]
  /\ UNCHANGED <<test, values, m, pm, pmOf, mout, p, r, threads>>

\* ptrs = ToSlice(FromSlice(ptrs))
BackTripSlice ==
  /\ test = "slice"
  /\ Len(mem) + Len(ptrs.elems) <= MaxCells
  /\ LET res == FromSlice(mem, ptrs) IN
       /\ mem' = res.heap
       /\ out' = res.ret
       /\ ptrs' = ToSlice(res.heap, res.ret)
  /\ ptrsOf' = "out"
  /\ last' = [op |-> "BackTripSlice", arg |-> SnapPtrs(mem, ptrs)]
  /\ UNCHANGED <<test, values, m, pm, pmOf, mout, p, r, threads>>

\* ---- the map operations ----

\* a literal map[string]*T{"a": To(1), "b": nil}
RECURSIVE PtrMapLiteral(_, _, _, _)
PtrMapLiteral(h, es, order, acc) ==
  IF order = <<>>
    THEN [heap |-> h, ret |-> acc]
    ELSE LET k == Head(order)
             cell == IF es[k].empty THEN [heap |-> h, ret |-> NilPtr] ELSE To(h, es[k].val)
         IN PtrMapLiteral(cell.heap, es, Tail(order),
                          [x \in DOMAIN acc \cup {k} |-> IF x = k THEN cell.ret ELSE acc[x]])

\* pm := map[string]*T{...}, or var pm map[string]*T
MakePtrMap ==
  /\ test = "map"
  /\ last.op = "init"
  /\ \E isnil \in BOOLEAN, K \in SUBSET Keys :
       \E es \in [K -> OptVal], order \in Perms(K) :
         /\ isnil => K = {}
         /\ Len(mem) + Cardinality({k \in K : ~es[k].empty}) <= MaxMapCells
         /\ LET res == PtrMapLiteral(mem, es, order, EmptyKV) IN
              /\ mem' = res.heap
              /\ pm' = IF isnil THEN NilMap ELSE [isnil |-> FALSE, kv |-> res.ret]
         /\ last' = [op |-> "MakePtrMap"]
  /\ pmOf' = "literal"
  /\ UNCHANGED <<test, values, ptrs, ptrsOf, out, m, mout, p, r, threads>>

\* pm := ToMap(m)
CallToMap ==
  /\ test = "map"
  /\ Len(mem) + Cardinality(DOMAIN m.kv) <= MaxMapCells
  /\ \E order \in Perms(DOMAIN m.kv) :
       LET res == ToMap(mem, m, order) IN
         /\ mem' = res.heap
         /\ pm' = res.ret
  /\ pmOf' = "ToMap"
  /\ last' = [op |-> "ToMap", arg |-> m]
  /\ UNCHANGED <<test, values, ptrs, ptrsOf, out, m, mout, p, r, threads>>

\* mout := FromMap(pm)
CallFromMap ==
  /\ test = "map"
  /\ mout' = FromMap(mem, pm)
  /\ last' = [op |-> "FromMap", arg |-> SnapPtrMap(mem, pm)]
  /\ UNCHANGED <<test, mem, values, ptrs, ptrsOf, out, m, pm, pmOf, p, r, threads>>

\* Set(pm[k], v)
SetEntry ==
  /\ test = "map"
  /\ \E k \in DOMAIN pm.kv, v \in Val :
       LET res == Set(mem, pm.kv[k], v) IN
         /\ mem' = res.heap
         /\ last' = [op |-> "SetEntry", key |-> k, arg |-> v, ret |-> res.ret]
  /\ UNCHANGED <<test, values, ptrs, ptrsOf, out, m, pm, pmOf, mout, p, r, threads>>

\* m[k] = v after pm := ToMap(m), for a key m has
WriteMap ==
  /\ test = "map"
  /\ pmOf = "ToMap"
  /\ \E k \in DOMAIN m.kv, v \in Val :
       /\ m' = [m EXCEPT !.kv[k] = v]
       /\ last' = [op |-> "WriteMap"]
  /\ UNCHANGED <<test, mem, values, ptrs, ptrsOf, out, pm, pmOf, mout, p, r, threads>>

\* mout[k] = v, for a key mout has
WriteMout ==
  /\ test = "map"
  /\ \E k \in DOMAIN mout.kv, v \in Val :
       /\ mout' = [mout EXCEPT !.kv[k] = v]
       /\ last' = [op |-> "WriteMout"]
  /\ UNCHANGED <<test, mem, values, ptrs, ptrsOf, out, m, pm, pmOf, p, r, threads>>

\* mout := FromMap(ToMap(m))
RoundTripMap ==
  /\ test = "map"
  /\ Len(mem) + Cardinality(DOMAIN m.kv) <= MaxMapCells
  /\ \E order \in Perms(DOMAIN m.kv) :
       LET res == ToMap(mem, m, order) IN
         /\ mem' = res.heap
         /\ pm' = res.ret
         /\ mout' = FromMap(res.heap, res.ret)
  /\ pmOf' = "ToMap"
  /\ last' = [op |-> "RoundTripMap", arg |-> m]
  /\ UNCHANGED <<test, values, ptrs, ptrsOf, out, m, p, r, threads>>

\* pm = ToMap(FromMap(pm))
BackTripMap ==
  /\ test = "map"
  /\ Len(mem) + Cardinality(DOMAIN pm.kv) <= MaxMapCells
  /\ \E order \in Perms(DOMAIN pm.kv) :
       LET vs == FromMap(mem, pm)
           res == ToMap(mem, vs, order)
       IN /\ mout' = vs
          /\ mem' = res.heap
          /\ pm' = res.ret
  /\ pmOf' = "ToMap"
  /\ last' = [op |-> "BackTripMap", arg |-> SnapPtrMap(mem, pm)]
  /\ UNCHANGED <<test, values, ptrs, ptrsOf, out, m, p, r, threads>>

\* ---- the type-specific operations ----

\* p = Int64(v)
CallInt64 ==
  /\ test = "core"
  /\ Len(mem) < MaxPtrs
  /\ \E v \in Val :
       LET res == Int64(mem, v) IN
         /\ mem' = res.heap
         /\ p' = res.ret
         /\ last' = [op |-> "Int64", arg |-> v]
  /\ UNCHANGED <<test, r, collVars, threads>>

\* r = ToInt64(a)
CallToInt64 ==
  /\ test = "core"
  /\ \E a \in Ptrs(mem) :
       /\ r' = ToInt64(mem, a)
       /\ last' = [op |-> "ToInt64", ptr |-> a, held |-> Held(mem, a)]
  /\ UNCHANGED <<test, mem, p, collVars, threads>>

\* ptrs := Int64Slice(values)
CallInt64Slice ==
  /\ test = "slice"
  /\ ptrs' = Int64Slice(mem, values)
  /\ ptrsOf' = "values"
  /\ last' = [op |-> "Int64Slice", arg |-> SnapSlice(mem, values)]
  /\ UNCHANGED <<test, mem, values, out, m, pm, pmOf, mout, p, r, threads>>

\* out := ToInt64Slice(ptrs)
CallToInt64Slice ==
  /\ test = "slice"
  /\ Len(mem) + Len(ptrs.elems) <= MaxCells
  /\ LET res == ToInt64Slice(mem, ptrs) IN
       /\ mem' = res.heap
       /\ out' = res.ret
  /\ last' = [op |-> "ToInt64Slice", arg |-> SnapPtrs(mem, ptrs)]
  /\ UNCHANGED <<test, values, ptrs, ptrsOf, m, pm, pmOf, mout, p, r, threads>>

\* pm := Int64Map(m)
CallInt64Map ==
  /\ test = "map"
  /\ Len(mem) + Cardinality(DOMAIN m.kv) <= MaxMapCells
  /\ \E order \in Perms(DOMAIN m.kv) :
       LET res == Int64Map(mem, m, order) IN
         /\ mem' = res.heap
         /\ pm' = res.ret
  /\ pmOf' = "ToMap"
  /\ last' = [op |-> "Int64Map", arg |-> m]
  /\ UNCHANGED <<test, values, ptrs, ptrsOf, out, m, mout, p, r, threads>>

\* mout := ToInt64Map(pm)
CallToInt64Map ==
  /\ test = "map"
  /\ mout' = ToInt64Map(mem, pm)
  /\ last' = [op |-> "ToInt64Map", arg |-> SnapPtrMap(mem, pm)]
  /\ UNCHANGED <<test, mem, values, ptrs, ptrsOf, out, m, pm, pmOf, p, r, threads>>

\* ---- two goroutines sharing one pointer ----

\* the goroutine t has run
Ran(t) == \E i \in DOMAIN threads.done : threads.done[i] = t

\* p := To(x); go Set(p, v); go From(p)
Go ==
  /\ test = "race"
  /\ ~threads.started
  /\ \E x \in Val, v \in Val :
       LET res == To(mem, x) IN
         /\ mem' = res.heap
         /\ p' = res.ret
         /\ threads' = [started |-> TRUE, arg |-> v, old |-> x, done |-> <<>>]
  /\ last' = [op |-> "Go"]
  /\ UNCHANGED <<test, r, collVars>>

\* the goroutine running Set(p, v): *p = value, under no lock
SetThread ==
  /\ test = "race"
  /\ threads.started
  /\ ~Ran("set")
  /\ mem' = Set(mem, p, threads.arg).heap
  /\ threads' = [threads EXCEPT !.done = Append(@, "set")]
  /\ last' = [op |-> "GoSet"]
  /\ UNCHANGED <<test, p, r, collVars>>

\* From made to wait for the writer, as under a lock the writer takes first
FromThreadLocked ==
  /\ test = "race"
  /\ threads.started
  /\ Ran("set")
  /\ ~Ran("from")
  /\ r' = From(mem, p)
  /\ threads' = [threads EXCEPT !.done = Append(@, "from")]
  /\ last' = [op |-> "GoFrom"]
  /\ UNCHANGED <<test, mem, p, collVars>>

\* the goroutine running From(p): return *p, under no lock.  Nothing orders
\* this read and the write of Set, so the read may observe the write of To
\* or, once it is made, the write of Set.
FromThread ==
  /\ test = "race"
  /\ threads.started
  /\ ~Ran("from")
  /\ r' \in {From(h, p) : h \in {mem, [mem EXCEPT ![p] = threads.old]}}
  /\ threads' = [threads EXCEPT !.done = Append(@, "from")]
  /\ last' = [op |-> "GoFrom"]
  /\ UNCHANGED <<test, mem, p, collVars>>

Next ==
  \/ CallTo
  \/ CallFrom
  \/ CallFromOr
  \/ CallGetOr
  \/ CallSet
  \/ CallFromTo
  \/ CallMustFrom
  \/ CallMustInt
  \/ CallIsNil
  \/ CallEqual
  \/ CallCopy
  \/ CallSetAt
  \/ CallCoalesce
  \/ CallOr
  \/ CallMap
  \/ CallFilter
  \/ CallFlatMap
  \/ CallBind
  \/ CallModify
  \/ CallApply
  \/ CallSwap
  \/ CallNonZero
  \/ CallIsZero
  \/ MakePtrs
  \/ CallToSlice
  \/ CallFromSlice
  \/ SetElem
  \/ WriteValues
  \/ WriteOut
  \/ RoundTripSlice
  \/ BackTripSlice
  \/ MakePtrMap
  \/ CallToMap
  \/ CallFromMap
  \/ SetEntry
  \/ WriteMap
  \/ WriteMout
  \/ RoundTripMap
  \/ BackTripMap
  \/ CallInt64
  \/ CallToInt64
  \/ CallInt64Slice
  \/ CallToInt64Slice
  \/ CallInt64Map
  \/ CallToInt64Map
  \/ Go
  \/ SetThread
  \/ FromThread

Spec == Init /\ [][Next]_vars

\* ---- properties ----

\* ptrs is the result of a ToSlice call
FromToSlice == ptrsOf \in {"values", "out"}

\* the value a snapshot element stands for once it is extracted
Extracted(e) == IF e.empty THEN Zero ELSE e.val

\* C1: the pointers ToSlice returns refer to copies of the elements: a Set
\* through result[i] leaves every values[i] unchanged, and a write to
\* values[i] leaves what every result[i] holds unchanged.
C1_ToSliceCopies ==
  [][/\ (ptrsOf = "values" /\ last'.op = "SetElem")
          => Contents(mem', values) = Contents(mem, values)
     /\ (ptrsOf = "values" /\ last'.op = "WriteValues")
          => \A i \in DOMAIN ptrs.elems : From(mem', ptrs.elems[i]) = From(mem, ptrs.elems[i])]_vars

\* C2: the pointers ToSlice returns are pairwise distinct, and a Set through
\* result[i] never changes the value read through another result[j].
C2_ToSliceNoAlias ==
  /\ [](FromToSlice =>
          \A i, j \in DOMAIN ptrs.elems : i # j => ptrs.elems[i] # ptrs.elems[j])
  /\ [][(FromToSlice /\ last'.op = "SetElem") =>
          \A j \in DOMAIN ptrs.elems :
            j # last'.idx => From(mem', ptrs.elems[j]) = From(mem, ptrs.elems[j])]_vars

\* a Set through one ToSlice pointer has made two elements differ
C2_Witness ==
  /\ FromToSlice
  /\ last.op = "SetElem"
  /\ last.ret
  /\ \E j \in DOMAIN ptrs.elems :
       /\ j # last.idx
       /\ From(mem, ptrs.elems[j]) # last.arg
       /\ From(mem, ptrs.elems[last.idx]) = last.arg

\* C3: for a non-nil values, ToSlice(values) has len(values) elements, none
\* of them nil, and the element at i holds values[i].
C3_ToSliceShape ==
  (last.op = "ToSlice" /\ ~last.arg.isnil) =>
    /\ ~ptrs.isnil
    /\ Len(ptrs.elems) = Len(last.arg.elems)
    /\ \A i \in DOMAIN ptrs.elems :
         /\ ~IsNil(ptrs.elems[i])
         /\ From(mem, ptrs.elems[i]) = last.arg.elems[i]

\* ToSlice has returned for two elements that differ
C3_Witness ==
  /\ last.op = "ToSlice"
  /\ Len(last.arg.elems) >= 2
  /\ last.arg.elems[1] # last.arg.elems[2]
  /\ Len(ptrs.elems) >= 2

\* C4: for a non-nil ptrs, FromSlice(ptrs) has len(ptrs) elements and the
\* element at i is the value ptrs[i] held, or the zero value when ptrs[i] is nil.
C4_FromSliceShape ==
  (last.op = "FromSlice" /\ ~last.arg.isnil) =>
    /\ ~out.isnil
    /\ out.len = Len(last.arg.elems)
    /\ \A i \in 1..out.len : mem[out.base + i] = Extracted(last.arg.elems[i])

\* FromSlice has returned for a nil pointer followed by a pointer to a
\* non-zero value
C4_Witness ==
  /\ last.op = "FromSlice"
  /\ Len(last.arg.elems) >= 2
  /\ last.arg.elems[1].empty
  /\ ~last.arg.elems[2].empty
  /\ last.arg.elems[2].val # Zero
  /\ out.len >= 2
  /\ mem[out.base + 1] = Zero

\* C5: ToMap and FromMap keep the key set: ToMap(m)[k] is a non-nil pointer
\* holding m[k], and FromMap(m)[k] is what m[k] held, or the zero value when
\* m[k] is nil.
C5_MapKeySet ==
  /\ (last.op = "ToMap" /\ ~last.arg.isnil) =>
       /\ ~pm.isnil
       /\ DOMAIN pm.kv = DOMAIN last.arg.kv
       /\ \A k \in DOMAIN pm.kv :
            /\ ~IsNil(pm.kv[k])
            /\ From(mem, pm.kv[k]) = last.arg.kv[k]
  /\ (last.op = "FromMap" /\ ~last.arg.isnil) =>
       /\ ~mout.isnil
       /\ DOMAIN mout.kv = DOMAIN last.arg.kv
       /\ \A k \in DOMAIN mout.kv : mout.kv[k] = Extracted(last.arg.kv[k])

\* FromMap has returned for a map with a nil entry and a non-nil entry
C5_Witness ==
  /\ last.op = "FromMap"
  /\ \E j, k \in DOMAIN last.arg.kv :
       /\ last.arg.kv[j].empty
       /\ ~last.arg.kv[k].empty
       /\ j \in DOMAIN mout.kv
       /\ k \in DOMAIN mout.kv

\* C6: each of the four conversions returns nil for nil and a non-nil
\* collection of length 0 for a non-nil collection of length 0.
C6_NilAndEmpty ==
  /\ last.op = "ToSlice" =>
       /\ ptrs.isnil <=> last.arg.isnil
       /\ last.arg.elems = <<>> => ptrs.elems = <<>>
  /\ last.op = "FromSlice" =>
       /\ out.isnil <=> last.arg.isnil
       /\ last.arg.elems = <<>> => out.len = 0
  /\ last.op = "ToMap" =>
       /\ pm.isnil <=> last.arg.isnil
       /\ DOMAIN last.arg.kv = {} => DOMAIN pm.kv = {}
  /\ last.op = "FromMap" =>
       /\ mout.isnil <=> last.arg.isnil
       /\ DOMAIN last.arg.kv = {} => DOMAIN mout.kv = {}

\* ToSlice has returned nil for a nil slice
C6_Witness ==
  /\ last.op = "ToSlice"
  /\ last.arg.isnil
  /\ ptrs.isnil

\* C7: FromSlice(ToSlice(xs)) is xs, nil for nil, and FromMap(ToMap(m)) is m.
C7_RoundTrip ==
  /\ last.op = "RoundTripSlice" =>
       /\ out.isnil <=> last.arg.isnil
       /\ Contents(mem, out) = last.arg.elems
  /\ last.op = "RoundTripMap" =>
       /\ mout.isnil <=> last.arg.isnil
       /\ mout.kv = last.arg.kv

\* a map of two different values has made the round trip
C7_Witness ==
  /\ last.op = "RoundTripMap"
  /\ \E j, k \in DOMAIN last.arg.kv : last.arg.kv[j] # last.arg.kv[k]
  /\ ~mout.isnil

\* C8: every element of ToSlice(FromSlice(ps)) is a non-nil pointer, one
\* holding the zero value where ps had nil; the same for ToMap(FromMap(m)).
C8_BackTripNonEmpty ==
  /\ (last.op = "BackTripSlice" /\ ~last.arg.isnil) =>
       /\ Len(ptrs.elems) = Len(last.arg.elems)
       /\ \A i \in DOMAIN ptrs.elems :
            /\ ~IsNil(ptrs.elems[i])
            /\ From(mem, ptrs.elems[i]) = Extracted(last.arg.elems[i])
  /\ (last.op = "BackTripMap" /\ ~last.arg.isnil) =>
       /\ DOMAIN pm.kv = DOMAIN last.arg.kv
       /\ \A k \in DOMAIN pm.kv :
            /\ ~IsNil(pm.kv[k])
            /\ From(mem, pm.kv[k]) = Extracted(last.arg.kv[k])

\* a slice with a nil pointer has come back with a pointer to zero in its place
C8_Witness ==
  /\ last.op = "BackTripSlice"
  /\ \E i \in DOMAIN last.arg.elems :
       /\ last.arg.elems[i].empty
       /\ i \in DOMAIN ptrs.elems
       /\ ~IsNil(ptrs.elems[i])
       /\ mem[ptrs.elems[i]] = Zero

\* C9: To(v) is never nil and From(To(v)) = v, for the zero value too.
C9_FromTo ==
  /\ last.op = "To" => (~IsNil(p) /\ From(mem, p) = last.arg)
  /\ last.op = "FromTo" => (~IsNil(p) /\ r = last.arg)

\* From(To(zero)) has returned
C9_Witness ==
  /\ last.op = "FromTo"
  /\ last.arg = Zero
  /\ ~IsNil(p)

\* C10: From of nil is the zero value and FromOr / GetOr of nil is the
\* default; for a non-nil pointer all three return the held value.
C10_FromDefaults ==
  /\ last.op = "From" => r = Extracted(last.held)
  /\ last.op \in {"FromOr", "GetOr"} =>
       r = IF last.held.empty THEN last.def ELSE last.held.val

\* FromOr has returned a non-zero default for nil
C10_Witness ==
  /\ last.op = "FromOr"
  /\ last.held.empty
  /\ last.def # Zero
  /\ r = last.def

\* the calls that may panic
MustOps == {"MustFrom", "MustInt"}

\* C11: MustFrom and the Must variants return the held value of a non-nil
\* pointer and panic for nil; they return nothing for nil.
C11_MustFrom ==
  last.op \in MustOps =>
    IF last.held.empty
      THEN last.panicked
      ELSE ~last.panicked /\ r = last.held.val

\* MustFrom(nil) has panicked
C11_Witness ==
  /\ last.op = "MustFrom"
  /\ last.held.empty
  /\ last.panicked

\* C12: no call panics except a Must call on nil: no other operation yields
\* the panic outcome, whatever its arguments.
C12_OnlyMustFromFails ==
  /\ r # PanicVal
  /\ \A i \in DOMAIN mem : mem[i] # PanicVal
  /\ \A k \in DOMAIN mout.kv : mout.kv[k] # PanicVal
  /\ ("panicked" \in DOMAIN last /\ last.panicked) =>
       (last.op \in MustOps /\ last.held.empty)

\* FromSlice has returned for a slice that holds a nil pointer
C12_Witness ==
  /\ last.op = "FromSlice"
  /\ \E i \in DOMAIN last.arg.elems : last.arg.elems[i].empty
  /\ ~out.isnil
  /\ \A i \in 1..out.len : mem[out.base + i] # PanicVal

\* C13: Equal is true for two nil pointers, false for one nil pointer, and
\* otherwise true exactly when the held values are equal, whether or not the
\* pointers are the same.
C13_Equal ==
  last.op = "Equal" =>
    last.ret = IF last.ha.empty \/ last.hb.empty
                 THEN last.ha.empty /\ last.hb.empty
                 ELSE last.ha.val = last.hb.val

\* two different pointers to equal values have compared equal
C13_Witness ==
  /\ last.op = "Equal"
  /\ last.a # last.b
  /\ ~last.ha.empty
  /\ ~last.hb.empty
  /\ last.ret

\* C14: Copy of nil is nil; Copy of a non-nil o is a pointer to a new cell
\* holding the same value, and a Set on one of the two leaves the other.
C14_Copy ==
  /\ [](last.op = "Copy" =>
          IF last.held.empty
            THEN IsNil(p)
            ELSE /\ ~IsNil(p)
                 /\ p # last.ptr
                 /\ From(mem, p) = last.held.val
                 /\ From(mem, last.ptr) = last.held.val)
  /\ [][/\ (last'.op = "Copy" /\ ~last'.held.empty) => p' \notin Ptrs(mem)
        /\ (last.op = "Copy" /\ ~last.held.empty /\ last'.op \in {"Set", "SetAt"}) =>
             /\ last'.ptr = last.ptr => From(mem', p) = From(mem, p)
             /\ last'.ptr = p => From(mem', last.ptr) = From(mem, last.ptr)]_vars

\* a non-nil pointer has been copied
C14_Witness ==
  /\ last.op = "Copy"
  /\ ~last.held.empty
  /\ ~IsNil(p)
  /\ p # last.ptr
  /\ mem[p] = mem[last.ptr]

\* C15: Map, Filter, FlatMap and Bind return nil for nil and do not call
\* their function argument.
C15_EmptyNotInvoked ==
  (last.op \in {"Map", "Filter", "FlatMap", "Bind"} /\ last.held.empty) =>
    /\ IsNil(p)
    /\ last.calls = <<>>

\* Map has returned for nil
C15_Witness ==
  /\ last.op = "Map"
  /\ last.held.empty
  /\ IsNil(p)
  /\ last.calls = <<>>

\* C16: Coalesce returns the first of its arguments that is not nil, the
\* argument itself, and nil when there is none; Or(a, b) is Coalesce(a, b).
C16_Coalesce ==
  /\ last.op \in {"Coalesce", "Or"} =>
       LET hits == {i \in DOMAIN last.args : last.args[i] # NilPtr} IN
         IF hits = {}
           THEN IsNil(p)
           ELSE \E i \in hits : (\A j \in hits : i <= j) /\ p = last.args[i]
  /\ last.op = "Or" => p = Coalesce(last.args)

\* Coalesce has chosen between two different non-nil pointers
C16_Witness ==
  /\ last.op = "Coalesce"
  /\ Len(last.args) >= 2
  /\ ~IsNil(last.args[1])
  /\ ~IsNil(last.args[2])
  /\ last.args[1] # last.args[2]
  /\ p = last.args[1]

\* C17: Set on a non-nil pointer overwrites the cell it points to, which every
\* holder of that pointer reads, and returns true; on nil it returns false
\* and changes nothing.
C17_Set ==
  [][last'.op \in {"Set", "SetAt"} =>
       IF last'.ptr = NilPtr
         THEN ~last'.ret /\ mem' = mem
         ELSE /\ last'.ret
              /\ Len(mem') = Len(mem)
              /\ \A a \in 1..Len(mem) :
                   From(mem', a) = IF a = last'.ptr THEN last'.arg ELSE From(mem, a)]_vars

\* a Set through another copy of the pointer p is read through p
C17_Witness ==
  /\ last.op = "SetAt"
  /\ last.ret
  /\ last.ptr = p
  /\ From(mem, p) = last.arg
  /\ last.arg # Zero

\* C18: on nil, Modify and Apply return false, do not call f and change
\* nothing; on a pointer holding x they return true, Modify leaves f(x) in
\* the cell, and Apply calls f once with x and leaves x.
C18_ModifyApply ==
  [][/\ last'.op = "Modify" =>
          IF last'.ptr = NilPtr
            THEN ~last'.ret /\ last'.calls = <<>> /\ mem' = mem
            ELSE /\ last'.ret
                 /\ last'.calls = <<mem[last'.ptr]>>
                 /\ mem' = [mem EXCEPT ![last'.ptr] = last'.fx.val]
     /\ last'.op = "Apply" =>
          IF last'.ptr = NilPtr
            THEN ~last'.ret /\ last'.calls = <<>> /\ mem' = mem
            ELSE /\ last'.ret
                 /\ last'.calls = <<mem[last'.ptr]>>
                 /\ mem' = mem]_vars

\* Modify has replaced x by a different f(x)
C18_Witness ==
  /\ last.op = "Modify"
  /\ ~last.held.empty
  /\ last.ret
  /\ last.fx.val # last.held.val
  /\ mem[last.ptr] = last.fx.val

\* C19: Swap of two non-nil pointers exchanges what they hold; with a nil
\* pointer on either side it changes nothing.
C19_Swap ==
  [][last'.op = "Swap" =>
       IF last'.a # NilPtr /\ last'.b # NilPtr
         THEN /\ Len(mem') = Len(mem)
              /\ \A c \in 1..Len(mem) :
                   mem'[c] = IF c = last'.a THEN mem[last'.b]
                             ELSE IF c = last'.b THEN mem[last'.a]
                             ELSE mem[c]
         ELSE mem' = mem]_vars

\* two different values have been exchanged
C19_Witness ==
  /\ last.op = "Swap"
  /\ ~last.ha.empty
  /\ ~last.hb.empty
  /\ last.ha.val # last.hb.val
  /\ mem[last.a] = last.hb.val
  /\ mem[last.b] = last.ha.val

\* C20: Filter of a non-nil o is o itself when the predicate holds for the
\* held value and nil when it does not; it never changes a held value.
C20_Filter ==
  /\ []((last.op = "Filter" /\ ~last.held.empty) =>
          p = IF last.fx.val THEN last.ptr ELSE NilPtr)
  /\ [][last'.op = "Filter" => mem' = mem]_vars

\* Filter has returned the pointer it was given
C20_Witness ==
  /\ last.op = "Filter"
  /\ ~last.held.empty
  /\ last.fx.val
  /\ ~IsNil(p)
  /\ p = last.ptr

\* C21: FlatMap of a pointer holding x is f(x) as f returned it, nil when f(x)
\* is nil and never a pointer to a pointer or to a zero value in its place;
\* Bind returns the same as FlatMap for every pointer and every f.
C21_FlatMapBind ==
  last.op \in {"FlatMap", "Bind"} =>
    Held(mem, p) = IF last.held.empty THEN [empty |-> TRUE] ELSE last.fx.val

\* Bind has returned nil for a pointer whose f(x) is nil
C21_Witness ==
  /\ last.op = "Bind"
  /\ ~last.held.empty
  /\ last.fx.val.empty
  /\ IsNil(p)

\* C22: NonZero(v) is nil exactly when v is the zero value of its type, and
\* otherwise a non-nil pointer holding v.
C22_NonZero ==
  last.op = "NonZero" =>
    /\ IsNil(p) <=> last.arg = Zero
    /\ ~IsNil(p) => From(mem, p) = last.arg

\* NonZero has returned nil for the zero value
C22_Witness ==
  /\ last.op = "NonZero"
  /\ last.arg = Zero
  /\ IsNil(p)

\* C23: IsZero(o) is true exactly when o is nil or holds the zero value, that
\* is, exactly when From(o) is the zero value.
C23_IsZero ==
  last.op = "IsZero" =>
    /\ last.ret <=> (last.held.empty \/ last.held.val = Zero)
    /\ last.ret <=> From(mem, last.ptr) = Zero

\* IsZero has answered true for a non-nil pointer to the zero value
C23_Witness ==
  /\ last.op = "IsZero"
  /\ ~last.held.empty
  /\ last.held.val = Zero
  /\ last.ret

\* C24: every type-specific function returns, and does to the memory, what
\* the generic function does for the same input: Int64 as To, ToInt64 as From,
\* Int64Slice as ToSlice, ToInt64Slice as FromSlice, Int64Map as ToMap and
\* ToInt64Map as FromMap, for nil pointers and nil or empty collections too.
C24_TypeSpecific ==
  [][/\ last'.op = "Int64" => [heap |-> mem', ret |-> p'] = To(mem, last'.arg)
     /\ last'.op = "ToInt64" => (r' = From(mem, last'.ptr) /\ mem' = mem)
     /\ last'.op = "Int64Slice" => (ptrs' = ToSlice(mem, values) /\ mem' = mem)
     /\ last'.op = "ToInt64Slice" => [heap |-> mem', ret |-> out'] = FromSlice(mem, ptrs)
     /\ last'.op = "Int64Map" =>
          \E order \in Perms(DOMAIN m.kv) : [heap |-> mem', ret |-> pm'] = ToMap(mem, m, order)
     /\ last'.op = "ToInt64Map" => (mout' = FromMap(mem, pm) /\ mem' = mem)]_vars

\* ToInt64 has returned the zero value for nil
C24_Witness ==
  /\ last.op = "ToInt64"
  /\ last.held.empty
  /\ r = Zero

\* C25: Map of a pointer o holding x returns a pointer to a new cell holding
\* f(x) and leaves x in o; the result is never o, not even for the identity
\* f, so a Set through the result is not seen through o.
C25_MapFresh ==
  /\ []((last.op = "Map" /\ ~last.held.empty) =>
          /\ ~IsNil(p)
          /\ p # last.ptr
          /\ From(mem, p) = last.fx.val
          /\ From(mem, last.ptr) = last.held.val)
  /\ [][/\ (last'.op = "Map" /\ ~last'.held.empty) =>
             /\ p' \notin Ptrs(mem)
             /\ \A c \in 1..Len(mem) : mem'[c] = mem[c]
        /\ (last.op = "Map" /\ ~last.held.empty /\ last'.op \in {"Set", "SetAt"}
              /\ last'.ptr = p) =>
             From(mem', last.ptr) = From(mem, last.ptr)]_vars

\* Map with the identity has returned another pointer to an equal value
C25_Witness ==
  /\ last.op = "Map"
  /\ ~last.held.empty
  /\ last.fx.val = last.held.val
  /\ ~IsNil(p)
  /\ p # last.ptr
  /\ mem[p] = mem[last.ptr]

\* the calls that assign pm the result of ToMap
ToMapOps == {"ToMap", "RoundTripMap", "BackTripMap", "Int64Map"}

\* C26: the pointers of ToMap(m) point to copies: they are new cells, one per
\* key, so a Set through ToMap(m)[k] leaves m and what the other keys hold,
\* and an update of m[k] leaves what every pointer of ToMap(m) holds.
C26_ToMapIndependent ==
  /\ [](pmOf = "ToMap" =>
          \A j, k \in DOMAIN pm.kv : j # k => pm.kv[j] # pm.kv[k])
  /\ [][/\ last'.op \in ToMapOps =>
             \A k \in DOMAIN pm'.kv : pm'.kv[k] \notin Ptrs(mem)
        /\ (pmOf = "ToMap" /\ last'.op = "SetEntry") =>
             /\ m' = m
             /\ \A j \in DOMAIN pm.kv :
                  j # last'.key => From(mem', pm.kv[j]) = From(mem, pm.kv[j])
        /\ (pmOf = "ToMap" /\ last'.op = "WriteMap") =>
             SnapPtrMap(mem', pm) = SnapPtrMap(mem, pm)]_vars

\* a Set through ToMap(m)[k] has left m[k] and the pointer under another key
C26_Witness ==
  /\ pmOf = "ToMap"
  /\ last.op = "SetEntry"
  /\ last.ret
  /\ m.kv[last.key] # last.arg
  /\ From(mem, pm.kv[last.key]) = last.arg
  /\ \E j \in DOMAIN pm.kv : j # last.key /\ From(mem, pm.kv[j]) # last.arg

\* the calls that only read what they are given
ReadOnlyOps ==
  {"From", "FromOr", "MustFrom", "Equal", "IsNil", "Coalesce", "Copy",
   "ToSlice", "FromSlice", "ToMap", "FromMap"}

\* C27: From, FromOr, MustFrom, Equal, IsNil, Coalesce, Copy, ToSlice,
\* FromSlice, ToMap and FromMap change neither the value of any cell that
\* exists when they are called nor the collection they are given: every
\* pointer holds after the call what it held before.
C27_ReadOnly ==
  [][last'.op \in ReadOnlyOps =>
       /\ Len(mem') >= Len(mem)
       /\ \A c \in 1..Len(mem) : mem'[c] = mem[c]
       /\ values' = values
       /\ m' = m
       /\ last'.op # "ToSlice" => ptrs' = ptrs
       /\ last'.op # "ToMap" => pm' = pm]_vars

\* FromSlice has returned and its argument still holds a non-zero value
C27_Witness ==
  /\ last.op = "FromSlice"
  /\ \E i \in DOMAIN ptrs.elems :
       /\ ~last.arg.elems[i].empty
       /\ last.arg.elems[i].val # Zero
       /\ From(mem, ptrs.elems[i]) = last.arg.elems[i].val

\* the pointers a call writes through
Written(l) ==
  IF l.op \in {"Set", "SetAt", "Modify"}
    THEN {l.ptr}
    ELSE IF l.op = "Swap" THEN {l.a, l.b} ELSE {}

\* C28: To returns a pointer to a new cell on every call, different from the
\* result of an earlier To(v) and from every pointer that existed; what the
\* result holds changes only by a Set, Modify or Swap given that very pointer,
\* never by a write through another one.
C28_ToFresh ==
  [][test = "core" =>
       /\ last'.op = "To" =>
            /\ p' \notin Ptrs(mem)
            /\ \A c \in 1..Len(mem) : mem'[c] = mem[c]
       /\ \A c \in 1..Len(mem) : mem'[c] # mem[c] => c \in Written(last')]_vars

\* a second To(v) has returned a pointer different from the first
C28_Witness ==
  /\ last.op = "To"
  /\ p > 1
  /\ \E c \in 1..(p - 1) : mem[c] = last.arg /\ mem[p] = last.arg

\* the calls after which ptrs is the argument of the FromSlice that returned out
FromSliceCalls == {"FromSlice", "ToInt64Slice", "RoundTripSlice"}

\* ptrs is the argument FromSlice was given, or other pointers not taken from
\* out itself: a literal, or ToSlice(values)
InputPtrs == ptrsOf # "out" \/ last.op \in FromSliceCalls

\* C29: FromSlice and FromMap return a snapshot: the elements of the result
\* are new, a Set through a pointer of the argument changes no element of the
\* result, and a write to an element of the result changes nothing a pointer
\* of the argument holds.
C29_Snapshot ==
  [][/\ last'.op \in FromSliceCalls \cup {"BackTripSlice"} =>
          (out'.isnil \/ out'.base >= Len(mem))
     /\ (InputPtrs /\ last'.op = "SetElem") =>
          Contents(mem', out) = Contents(mem, out)
     /\ (InputPtrs /\ last'.op = "WriteOut") =>
          SnapPtrs(mem', ptrs) = SnapPtrs(mem, ptrs)
     /\ last'.op = "SetEntry" => mout' = mout
     /\ last'.op = "WriteMout" => SnapPtrMap(mem', pm) = SnapPtrMap(mem, pm)]_vars

\* a Set through a pointer FromSlice was given has left the result
C29_Witness ==
  /\ ptrsOf = "literal"
  /\ last.op = "SetElem"
  /\ last.ret
  /\ ~out.isnil
  /\ last.idx <= out.len
  /\ mem[out.base + last.idx] # last.arg
  /\ From(mem, ptrs.elems[last.idx]) = last.arg

\* C30: no call locks or waits: with Set(p, v) and From(p) running in two
\* goroutines on one pointer, each can take its step whether or not the other
\* has, so both orders happen; From returns the value held before the Set or
\* v, and the old value when it runs first.
C30_NoLocking ==
  threads.started =>
    /\ ~Ran("set") => ENABLED SetThread
    /\ ~Ran("from") => ENABLED FromThread
    /\ Ran("set") => mem[p] = threads.arg
    /\ Ran("from") => r \in {threads.old, threads.arg}
    /\ (Ran("from") /\ threads.done[1] = "from") => r = threads.old

\* From has run after Set and returned the new value, different from the old
C30_Witness ==
  /\ threads.started
  /\ threads.done = <<"set", "from">>
  /\ threads.arg # threads.old
  /\ r = threads.arg

====
